---- MODULE Spec2Model ----
(***************************************************************************)
(* Model of functions/index.js: the HTTPS function generateAstralChart.    *)
(* One request is followed from its arrival to its response; the four      *)
(* collaborators (Nominatim geocoder, Google Time Zone API, swisseph-js,    *)
(* Gemini) are oracles whose answers are drawn from small sets.             *)
(*                                                                         *)
(* Numbers.  Ecliptic longitudes are fixed-point integers in units of      *)
(* 1/500 degree, so that toFixed(2) (rounding to 1/100 degree) is a real   *)
(* rounding and never meets a tie.  Hours are integers in seconds.         *)
(***************************************************************************)
EXTENDS Integers, Sequences, FiniteSets, TLC

VARIABLES
    cfg,          \* functions.config(): [gemini, maps], fixed per deployment
    pc,           \* where the module / the handler stands
    req,          \* the request being handled: [method, body]
    responses,    \* what was sent on res, in order
    calls,        \* collaborator calls made for this request, in order
    results,      \* what each finished call returned (a tag), aligned with calls
    latlon,       \* latitude, longitude (lines 70, 91-92)
    localDate,    \* new Date(localDateTimeString) (line 110)
    rawOffsetSeconds, \* line 132
    julArgs,      \* the arguments handed to swe_julday (lines 147-153)
    planetData,   \* lines 162, 177: one entry per body, insertion order
    ascmc,        \* what swe_houses returned (line 181)
    housesData,   \* lines 186-193
    angles,       \* ascendantSign, mcSign, sunSign, moonSign (lines 195-209)
    placements    \* Math.floor(housePos) per body (lines 212-218)

vars == <<cfg, pc, req, responses, calls, results, latlon, localDate,
          rawOffsetSeconds, julArgs, planetData, ascmc, housesData, angles,
          placements>>

----------------------------------------------------------------------------
(* Bounds and scales *)

\* How many of the ten bodies of line 156-160 the model follows (Sol, Luna, ...).
NumBodies == 2

\* 1 degree = 500 units: hundredths (the two digits of toFixed(2)) times 5.
UnitsPerDegree == 100 * 5
Deg(d) == d * UnitsPerDegree

----------------------------------------------------------------------------
(* Request data *)

Methods == {"OPTIONS", "GET", "POST"}

\* birthDate as sent: absent/empty, a non-empty string that is no date, a date.
NoDate  == [k |-> "empty", y |-> 0, m |-> 0, d |-> 0]
BadDate == [k |-> "text",  y |-> 0, m |-> 0, d |-> 0]
DateValues == {NoDate, BadDate, [k |-> "date", y |-> 1990, m |-> 3, d |-> 21]}

\* birthTime as sent: absent/empty, a non-empty string that is no time, HH:MM.
NoTime  == [k |-> "empty", h |-> 0, mi |-> 0]
BadTime == [k |-> "text",  h |-> 0, mi |-> 0]
TimeValues == {NoTime, BadTime,
               [k |-> "time", h |-> 12, mi |-> 0],
               [k |-> "time", h |-> 12, mi |-> 30]}

PlaceValues == {"", "Paris, France"}
SexValues   == {"", "female"}
LangValues  == {"", "es"}

Bodies == [birthDate : DateValues, birthTime : TimeValues,
           birthPlace : PlaceValues, userSex : SexValues, language : LangValues]

NoRequest == [method |-> "none",
              body |-> [birthDate |-> NoDate, birthTime |-> NoTime,
                        birthPlace |-> "", userSex |-> "", language |-> ""]]

\* JavaScript truthiness of the request fields (line 65: !birthDate, ...).
TruthyStr(s) == s # ""
TruthyRec(v) == v.k # "empty"

----------------------------------------------------------------------------
(* Collaborator answers.  The field "what" names the answer for the record *)
(* of the run; the handler never reads it.                                 *)

\* fetch(nominatimUrl): rejects, answers with a non-OK status, answers OK with
\* a body that is no JSON, or answers OK with null / [] / one match.
\* lat, lon in 1/10000 degree (parseFloat of the strings Nominatim sends).
NoLatLon == [lat |-> 0, lon |-> 0, set |-> FALSE]
GeoAnswers ==
    { [what |-> "reject",  rejects |-> TRUE,  ok |-> FALSE, json |-> FALSE, isNull |-> FALSE, items |-> <<>>],
      [what |-> "not_ok",  rejects |-> FALSE, ok |-> FALSE, json |-> FALSE, isNull |-> FALSE, items |-> <<>>],
      [what |-> "bad_json", rejects |-> FALSE, ok |-> TRUE, json |-> FALSE, isNull |-> FALSE, items |-> <<>>],
      [what |-> "null",    rejects |-> FALSE, ok |-> TRUE,  json |-> TRUE,  isNull |-> TRUE,  items |-> <<>>],
      [what |-> "zero_matches", rejects |-> FALSE, ok |-> TRUE, json |-> TRUE, isNull |-> FALSE, items |-> <<>>],
      [what |-> "match",   rejects |-> FALSE, ok |-> TRUE,  json |-> TRUE,  isNull |-> FALSE,
       items |-> << [lat |-> 488566, lon |-> 23522] >>] }

\* fetch(googleTimeZoneUrl): as above; a JSON body carries status, dstOffset,
\* rawOffset (seconds).
TzBody(st, dst, raw) ==
    [what |-> IF st = "OK" THEN "ok" ELSE "status_not_ok",
     rejects |-> FALSE, ok |-> TRUE, json |-> TRUE,
     status |-> st, dstOffset |-> dst, rawOffset |-> raw]
TzAnswers ==
    { [what |-> "reject",  rejects |-> TRUE,  ok |-> FALSE, json |-> FALSE, status |-> "", dstOffset |-> 0, rawOffset |-> 0],
      [what |-> "not_ok",  rejects |-> FALSE, ok |-> FALSE, json |-> FALSE, status |-> "", dstOffset |-> 0, rawOffset |-> 0],
      [what |-> "bad_json", rejects |-> FALSE, ok |-> TRUE, json |-> FALSE, status |-> "", dstOffset |-> 0, rawOffset |-> 0],
      TzBody("ZERO_RESULTS", 0, 0),
      TzBody("OK", 0, 3600),
      TzBody("OK", 3600, 3600),
      TzBody("OK", 0, 19800) }

\* swisseph.swe_julday: returns a day number or throws.
JuldayAnswers == {"ok", "throw"}

\* swisseph.swe_calc_ut: pos[0], the raw longitude, or a throw.  The values
\* include the sign boundary, the last 0.004 degree of a sign, and raw values
\* outside [0,360).
LonValues == { 0, Deg(30) - 2, Deg(30), Deg(360) - 1, Deg(360), 0 - Deg(5) }
CalcAnswers == [what : {"ok"}, lon : LonValues] \cup {[what |-> "throw", lon |-> 0]}

\* swisseph.swe_houses: {house[1..12], ascendant, mc}, or a throw.
EqualHouses(asc) == [i \in 1..12 |-> (asc + Deg(30) * (i - 1)) % Deg(360)]
NoAscmc == [what |-> "none", house |-> [i \in 1..12 |-> 0], ascendant |-> 0, mc |-> 0]
HouseAnswers ==
    { [what |-> "throw", house |-> [i \in 1..12 |-> 0], ascendant |-> 0, mc |-> 0],
      [what |-> "ok", house |-> EqualHouses(0), ascendant |-> 0, mc |-> Deg(270)],
      [what |-> "ok", house |-> EqualHouses(Deg(100)), ascendant |-> Deg(100), mc |-> Deg(10)],
      [what |-> "ok", house |-> [EqualHouses(0) EXCEPT ![1] = Deg(360), ![2] = Deg(30) - 2],
       ascendant |-> Deg(360), mc |-> Deg(270)] }

\* swisseph.swe_house_pos: a house position in tenths (1.0, 12.5), or a throw.
HousePosAnswers == { [what |-> "ok", pos |-> 10], [what |-> "ok", pos |-> 125],
                     [what |-> "throw", pos |-> 0] }

\* genAI.getGenerativeModel(...).generateContent(...): rejects (or throws),
\* resolves with no candidate, with a candidate whose part has no text, or
\* with a text.
NarrativeAnswers == {"reject", "no_candidates", "no_text", "text"}

----------------------------------------------------------------------------
(* The handler's own computations *)

\* res.status(s).json(...) / res.status(s).send(): the status and what the
\* body holds: "none" (send()), "message", "chartText", or "empty_object"
\* ({chartText: undefined} serialises to {}).
Resp(s, b) == [status |-> s, body |-> b]

\* Line 17, evaluated when the module is loaded: reading .api_key of an absent
\* gemini section throws, and the function is never exported.
LoadThrows(c) == c.gemini = "nosection"

\* Lines 52 and 56.
GeminiKeyMissing(c) == c.gemini # "set"
MapsKeyMissing(c) == c.maps # "set"
ConfigMissing_OnlyGemini(c) == GeminiKeyMissing(c)
ConfigMissing(c) == GeminiKeyMissing(c) \/ MapsKeyMissing(c)

\* Line 65.
BodyComplete_NoLanguage(b) ==
    /\ TruthyRec(b.birthDate) /\ TruthyRec(b.birthTime)
    /\ TruthyStr(b.birthPlace) /\ TruthyStr(b.userSex)
BodyComplete(b) ==
    /\ TruthyRec(b.birthDate) /\ TruthyRec(b.birthTime)
    /\ TruthyStr(b.birthPlace) /\ TruthyStr(b.userSex) /\ TruthyStr(b.language)

\* Lines 78-88: the fetch rejects, the status is not OK, or json() rejects:
\* all three land in the catch of line 98.
FetchThrows(a) == a.rejects \/ ~a.ok \/ ~a.json

\* Line 90: nominatimData && nominatimData.length > 0.
NominatimHasMatch_GreaterEqual(a) == ~a.isNull /\ Len(a.items) >= 0
NominatimHasMatch(a) == ~a.isNull /\ Len(a.items) > 0

\* Lines 109-110: new Date(`${birthDate}T${birthTime}:00`), read back in local
\* time.  getMonth() counts from 0.
InvalidDate == [valid |-> FALSE, year |-> 0, month |-> 0, date |-> 0,
                hours |-> 0, minutes |-> 0]
NewDate_DateOnly(bd, bt) ==
    IF bd.k = "date"
    THEN [valid |-> TRUE, year |-> bd.y, month |-> bd.m - 1, date |-> bd.d,
          hours |-> bt.h, minutes |-> bt.mi]
    ELSE InvalidDate
NewDate(bd, bt) ==
    IF bd.k = "date" /\ bt.k = "time"
    THEN [valid |-> TRUE, year |-> bd.y, month |-> bd.m - 1, date |-> bd.d,
          hours |-> bt.h, minutes |-> bt.mi]
    ELSE InvalidDate

\* Line 112: isNaN(localDate.getTime()).
IsNaNDate(ld) == ~ld.valid

\* Line 129.
TimezoneOK_Always(a) == TRUE
TimezoneOK(a) == a.status = "OK"

\* Lines 147-153: the arguments of swe_julday; the hour in seconds:
\* localDate.getHours() + rawOffsetSeconds / 3600.
NoJulArgs == [year |-> 0, month |-> 0, day |-> 0, hourSeconds |-> 0, set |-> FALSE]
JuldayArgs(ld, off) ==
    [year |-> ld.year, month |-> ld.month + 1, day |-> ld.date,
     hourSeconds |-> ld.hours * 3600 + off, set |-> TRUE]

\* Lines 156-168: the bodies, in the order of the planets array (accents dropped).
PlanetNames == <<"Sol", "Luna", "Mercurio", "Venus", "Marte", "Jupiter",
                 "Saturno", "Urano", "Neptuno", "Pluton">>

\* Line 169 (the accents of the source strings are dropped here).
SignNames == <<"Aries", "Tauro", "Geminis", "Cancer", "Leo", "Virgo", "Libra",
               "Escorpio", "Sagitario", "Capricornio", "Acuario", "Piscis">>

\* signNames[signIndex]: an index outside 0..11 reads undefined.
SignAt(idx) == IF idx \in 0..11 THEN SignNames[idx + 1] ELSE "undefined"

\* Math.floor(longitude / 30) (lines 174, 189, 195, 197, 203, 208).
SignIndex(lon) == lon \div Deg(30)

\* The JavaScript % : the remainder takes the sign of the dividend.
JsRem(a, b) == IF a >= 0 THEN a % b ELSE 0 - ((0 - a) % b)

\* Number.prototype.toFixed(2): the nearest hundredth (in hundredths); the
\* magnitude is rounded and the sign kept.  A unit is 1/5 hundredth.
ToFixed2(x) == IF x >= 0 THEN (x + 2) \div 5 ELSE 0 - (((0 - x) + 2) \div 5)

\* Lines 173-177 and 188-192: { sign, degree, longitude }.
ChartEntry(lon) ==
    [sign |-> SignAt(SignIndex(lon)), degree |-> ToFixed2(JsRem(lon, Deg(30))),
     longitude |-> lon]

\* Line 217: Math.floor(housePos), housePos in tenths.
FloorHousePos(pos) == pos \div 10

\* Line 313 reads chartText.length: with no text in the part it throws.
LogLengthThrows_NoLog(o) == FALSE
LogLengthThrows(o) == o = "no_text"

\* Lines 308-323: what the narrative call's answer turns into.
NarrativeResponse(o) ==
    IF o \in {"reject", "no_candidates"} \/ LogLengthThrows(o)
    THEN Resp(500, "message")
    ELSE Resp(200, IF o = "text" THEN "chartText" ELSE "empty_object")

----------------------------------------------------------------------------
(* State *)

CfgStates == {"nosection", "nokey", "set"}

NoAngles == [ascendantSign |-> "", mcSign |-> "", sunSign |-> "", moonSign |-> ""]

chartVars == <<julArgs, planetData, ascmc, housesData, angles, placements>>
placeVars == <<latlon, localDate, rawOffsetSeconds>>

\* The locals of one invocation before anything is assigned.
FreshLocals ==
    /\ latlon = NoLatLon
    /\ localDate = InvalidDate
    /\ rawOffsetSeconds = 0
    /\ julArgs = NoJulArgs
    /\ planetData = <<>>
    /\ ascmc = NoAscmc
    /\ housesData = <<>>
    /\ angles = NoAngles
    /\ placements = <<>>

Init ==
    /\ cfg \in [gemini : CfgStates, maps : CfgStates]
    /\ pc = "init"
    /\ req = NoRequest
    /\ responses = <<>>
    /\ calls = <<>>
    /\ results = <<>>
    /\ FreshLocals

\* The response is sent and the invocation is over.
Respond(r) ==
    /\ responses' = Append(responses, r)
    /\ pc' = "done"

\* The catch of lines 318-323.
Caught == Respond(Resp(500, "message"))

----------------------------------------------------------------------------
(* Actions *)

\* Lines 1-21: the module is loaded; line 17 may throw.
LoadModule ==
    /\ pc = "init"
    /\ pc' = IF LoadThrows(cfg) THEN "load_failed" ELSE "idle"
    /\ UNCHANGED <<cfg, req, responses, calls, results, placeVars, chartVars>>

\* Lines 29-75: a request arrives and the handler runs to its first await.
Receive(m, b) ==
    /\ pc = "idle"
    /\ req' = [method |-> m, body |-> b]
    /\ IF m = "OPTIONS"
         THEN Respond(Resp(200, "none")) /\ UNCHANGED calls
         ELSE IF m # "POST"
         THEN Respond(Resp(405, "message")) /\ UNCHANGED calls
         ELSE IF ConfigMissing(cfg)
         THEN Respond(Resp(500, "message")) /\ UNCHANGED calls
         ELSE IF ~BodyComplete(b)
         THEN Respond(Resp(400, "message")) /\ UNCHANGED calls
         ELSE /\ calls' = Append(calls, "geocoder")
              /\ pc' = "geocode"
              /\ UNCHANGED responses
    /\ UNCHANGED <<cfg, results, placeVars, chartVars>>

\* Lines 78-122: the geocoder's answer; with a match, the local date-time is
\* composed and parsed, and the time-zone lookup is sent.
GeocodeReturn(a) ==
    /\ pc = "geocode"
    /\ results' = Append(results, a.what)
    /\ IF FetchThrows(a)
         THEN /\ Respond(Resp(500, "message"))
              /\ UNCHANGED <<calls, latlon, localDate>>
         ELSE IF ~NominatimHasMatch(a)
         THEN /\ Respond(Resp(404, "message"))
              /\ UNCHANGED <<calls, latlon, localDate>>
         ELSE IF Len(a.items) = 0
         THEN \* line 91 would read .lat of undefined: a TypeError, caught at line 98
              /\ Respond(Resp(500, "message"))
              /\ UNCHANGED <<calls, latlon, localDate>>
         ELSE /\ latlon' = [lat |-> a.items[1].lat, lon |-> a.items[1].lon, set |-> TRUE]
              /\ localDate' = NewDate(req.body.birthDate, req.body.birthTime)
              /\ IF IsNaNDate(localDate')
                   THEN Respond(Resp(400, "message")) /\ UNCHANGED calls
                   ELSE /\ calls' = Append(calls, "timezone")
                        /\ pc' = "timezone"
                        /\ UNCHANGED responses
    /\ UNCHANGED <<cfg, req, rawOffsetSeconds, chartVars>>

\* Lines 122-141: the time-zone lookup's answer.
TimezoneReturn(a) ==
    /\ pc = "timezone"
    /\ results' = Append(results, a.what)
    /\ IF FetchThrows(a)
         THEN Respond(Resp(500, "message")) /\ UNCHANGED rawOffsetSeconds
         ELSE IF ~TimezoneOK(a)
         THEN Respond(Resp(404, "message")) /\ UNCHANGED rawOffsetSeconds
         ELSE /\ rawOffsetSeconds' = a.dstOffset + a.rawOffset
              /\ pc' = "julday"
              /\ UNCHANGED responses
    /\ UNCHANGED <<cfg, req, calls, latlon, localDate, chartVars>>

\* Lines 147-153: swe_julday.
JulianDay(o) ==
    /\ pc = "julday"
    /\ calls' = Append(calls, "swe_julday")
    /\ results' = Append(results, o)
    /\ julArgs' = JuldayArgs(localDate, rawOffsetSeconds)
    /\ IF o = "throw"
         THEN Caught
         ELSE pc' = "calc" /\ UNCHANGED responses
    /\ UNCHANGED <<cfg, req, placeVars, planetData, ascmc, housesData, angles, placements>>

\* Lines 171-178: one turn of the loop over the bodies.
CalcUt(a) ==
    /\ pc = "calc"
    /\ Len(planetData) < NumBodies
    /\ calls' = Append(calls, "swe_calc_ut")
    /\ results' = Append(results, a.what)
    /\ IF a.what = "throw"
         THEN Caught /\ UNCHANGED planetData
         ELSE /\ planetData' = Append(planetData,
                    [name |-> PlanetNames[Len(planetData) + 1]] @@ ChartEntry(a.lon))
              /\ pc' = IF Len(planetData') = NumBodies THEN "houses" ELSE "calc"
              /\ UNCHANGED responses
    /\ UNCHANGED <<cfg, req, placeVars, julArgs, ascmc, housesData, angles, placements>>

\* planetData[name]
Planet(pd, n) == CHOOSE e \in {pd[i] : i \in 1..Len(pd)} : e.name = n

\* Lines 181-209: swe_houses, the twelve cusps, the four signs.
Houses(a) ==
    /\ pc = "houses"
    /\ calls' = Append(calls, "swe_houses")
    /\ results' = Append(results, a.what)
    /\ IF a.what = "throw"
         THEN Caught /\ UNCHANGED <<ascmc, housesData, angles>>
         ELSE /\ ascmc' = a
              /\ housesData' = [i \in 1..12 |-> ChartEntry(a.house[i])]
              /\ angles' = [ascendantSign |-> SignAt(SignIndex(a.ascendant)),
                            mcSign |-> SignAt(SignIndex(a.mc)),
                            sunSign |-> SignAt(SignIndex(Planet(planetData, "Sol").longitude)),
                            moonSign |-> SignAt(SignIndex(Planet(planetData, "Luna").longitude))]
              /\ pc' = "housepos"
              /\ UNCHANGED responses
    /\ UNCHANGED <<cfg, req, placeVars, julArgs, planetData, placements>>

\* Lines 212-218: one turn of the map over the bodies (swe_house_pos); after
\* the last, lines 220-309: the prompt is assembled and generateContent sent.
HousePos(a) ==
    /\ pc = "housepos"
    /\ Len(placements) < Len(planetData)
    /\ results' = Append(results, a.what)
    /\ IF a.what = "throw"
         THEN /\ calls' = Append(calls, "swe_house_pos")
              /\ Caught
              /\ UNCHANGED placements
         ELSE /\ placements' = Append(placements, FloorHousePos(a.pos))
              /\ IF Len(placements') = Len(planetData)
                   THEN /\ calls' = calls \o <<"swe_house_pos", "narrative">>
                        /\ pc' = "narrative"
                   ELSE /\ calls' = Append(calls, "swe_house_pos")
                        /\ pc' = "housepos"
              /\ UNCHANGED responses
    /\ UNCHANGED <<cfg, req, placeVars, julArgs, planetData, ascmc, housesData, angles>>

\* Lines 309-323: the narrative generator's answer.
NarrativeReturn(o) ==
    /\ pc = "narrative"
    /\ results' = Append(results, o)
    /\ Respond(NarrativeResponse(o))
    /\ UNCHANGED <<cfg, req, calls, placeVars, chartVars>>

\* The invocation is over; the next request starts with fresh locals (no
\* state is shared between requests).
NextRequest ==
    /\ pc = "done"
    /\ pc' = "idle"
    /\ req' = NoRequest
    /\ responses' = <<>>
    /\ calls' = <<>>
    /\ results' = <<>>
    /\ latlon' = NoLatLon
    /\ localDate' = InvalidDate
    /\ rawOffsetSeconds' = 0
    /\ julArgs' = NoJulArgs
    /\ planetData' = <<>>
    /\ ascmc' = NoAscmc
    /\ housesData' = <<>>
    /\ angles' = NoAngles
    /\ placements' = <<>>
    /\ UNCHANGED cfg

Next ==
    \/ LoadModule
    \/ \E m \in Methods, b \in Bodies : Receive(m, b)
    \/ \E a \in GeoAnswers : GeocodeReturn(a)
    \/ \E a \in TzAnswers : TimezoneReturn(a)
    \/ \E o \in JuldayAnswers : JulianDay(o)
    \/ \E a \in CalcAnswers : CalcUt(a)
    \/ \E a \in HouseAnswers : Houses(a)
    \/ \E a \in HousePosAnswers : HousePos(a)
    \/ \E o \in NarrativeAnswers : NarrativeReturn(o)
    \/ NextRequest

Spec == Init /\ [][Next]_vars

----------------------------------------------------------------------------
(* Vocabulary of the properties *)

Answered == pc = "done"
Status == responses[1].status

\* Some required field of the body is absent or empty.
LacksField(b) ==
    \/ b.birthDate = NoDate \/ b.birthTime = NoTime
    \/ b.birthPlace = "" \/ b.userSex = "" \/ b.language = ""

\* Both upstream credentials are configured / one of them is absent.
CredentialsPresent == cfg.gemini = "set" /\ cfg.maps = "set"
CredentialAbsent == ~CredentialsPresent

\* The composed date-time is no date-time.
Unparseable(b) == b.birthDate.k # "date" \/ b.birthTime.k # "time"

GeocoderAnswered == Len(results) >= 1
GeocoderAnswer == results[1]

\* The answers that are a collaborator's failure.
Failed(tag) == tag \in {"reject", "not_ok", "bad_json", "null", "zero_matches",
                        "status_not_ok", "throw", "no_candidates", "no_text"}

Repeat(x, n) == [i \in 1..n |-> x]

\* The calls of a request that goes all the way, in order: the geocoder, the
\* time-zone lookup, the ephemeris (day number, one position per body, the
\* houses, one house position per body), the narrative generator.
FullCalls ==
    <<"geocoder", "timezone", "swe_julday">> \o Repeat("swe_calc_ut", NumBodies)
    \o <<"swe_houses">> \o Repeat("swe_house_pos", NumBodies) \o <<"narrative">>

IsPrefix(s, t) == Len(s) <= Len(t) /\ s = SubSeq(t, 1, Len(s))

\* Every { sign, degree, longitude } the chart holds: bodies and cusps.
ChartEntries ==
    {[sign |-> planetData[i].sign, degree |-> planetData[i].degree,
      longitude |-> planetData[i].longitude] : i \in 1..Len(planetData)}
    \cup {housesData[i] : i \in 1..Len(housesData)}

SignSet == {SignNames[i] : i \in 1..12}

----------------------------------------------------------------------------
(* Properties *)

\* C1 (as stated): a POST request whose body lacks one of the five fields is
\* answered with status 400 and no collaborator is called.
C1_AsStated ==
    (req.method = "POST" /\ LacksField(req.body))
        => (Answered /\ responses = <<Resp(400, "message")>> /\ calls = <<>>)

\* C1 (amended): with both credentials configured, a POST request whose body
\* lacks one of the five fields is answered with status 400 and no
\* collaborator is called; with a credential absent it is answered 500, also
\* without any collaborator call.
C1_MissingField400 ==
    (req.method = "POST" /\ LacksField(req.body))
        => /\ Answered
           /\ calls = <<>>
           /\ responses = <<Resp(IF CredentialsPresent THEN 400 ELSE 500, "message")>>

\* C1 witness: only language is missing, the credentials are there, 400 sent.
C1_Witness ==
    /\ req.method = "POST" /\ CredentialsPresent
    /\ req.body.language = ""
    /\ req.body.birthDate.k = "date" /\ req.body.birthTime.k = "time"
    /\ req.body.birthPlace # "" /\ req.body.userSex # ""
    /\ responses = <<Resp(400, "message")>>

\* C2: when the geocoder answers OK with zero matches (an empty list or
\* null), the request is answered 404 with a message, and the geocoder is the
\* only collaborator called: no time-zone lookup, ephemeris or narrative call.
C2_GeocoderEmpty404 ==
    (req.method = "POST" /\ GeocoderAnswered
     /\ GeocoderAnswer \in {"zero_matches", "null"})
        => (Answered /\ responses = <<Resp(404, "message")>> /\ calls = <<"geocoder">>)

\* C2 witness: the geocoder answered [] and 404 was sent.
C2_Witness ==
    /\ GeocoderAnswered /\ GeocoderAnswer = "zero_matches"
    /\ responses = <<Resp(404, "message")>>

\* C3 (as stated): a complete POST request whose date-time does not parse is
\* answered 400 whatever the geocoder returned.
C3_AsStated ==
    (req.method = "POST" /\ ~LacksField(req.body) /\ Unparseable(req.body)
     /\ GeocoderAnswered)
        => (Answered /\ Status = 400)

\* C3 (amended): a complete POST request whose date-time does not parse is
\* answered 400 when the geocoder returned a match; the date-time is parsed
\* only after the geocoder's answer, so zero matches give 404 and a geocoder
\* transport failure gives 500.  In every case no time-zone lookup is made.
C3_InvalidDateAfterGeocoder ==
    (req.method = "POST" /\ ~LacksField(req.body) /\ Unparseable(req.body)
     /\ GeocoderAnswered)
        => /\ Answered
           /\ calls = <<"geocoder">>
           /\ responses = <<Resp(CASE GeocoderAnswer = "match" -> 400
                                   [] GeocoderAnswer \in {"zero_matches", "null"} -> 404
                                   [] OTHER -> 500, "message")>>

\* C3 witness: a date with an unparseable time, the geocoder matched, 400 sent.
C3_Witness ==
    /\ req.body.birthDate.k = "date" /\ req.body.birthTime = BadTime
    /\ GeocoderAnswered /\ GeocoderAnswer = "match"
    /\ responses = <<Resp(400, "message")>>

\* C4: a non-OPTIONS request gets exactly one response: none while the
\* handler is still working (and the handler can then always take a step,
\* whatever the collaborators answer), one once it is over; the response is
\* status 200 with chartText or a non-200 status with message.
C4_ExactlyOneResponse ==
    (req.method \in {"GET", "POST"})
        => /\ Len(responses) = (IF Answered THEN 1 ELSE 0)
           /\ ~Answered => ENABLED Next
           /\ \A i \in 1..Len(responses) :
                \/ responses[i] = Resp(200, "chartText")
                \/ responses[i].status # 200 /\ responses[i].body = "message"

\* C4 witness: the narrative generator returned a text and 200 was sent.
C4_Witness ==
    /\ req.method = "POST" /\ Answered
    /\ results # <<>> /\ results[Len(results)] = "text"
    /\ responses = <<Resp(200, "chartText")>>

C6_AsStated ==
    (CredentialAbsent /\ Answered)
        => (responses = <<Resp(500, "message")>> /\ calls = <<>>)

\* C6 (amended): while a credential is absent no collaborator is ever called,
\* and every POST request the function receives is answered 500; the method
\* is checked first, so OPTIONS is still answered 200 and any other method 405.
C6_ConfigMissing ==
    CredentialAbsent
        => /\ calls = <<>>
           /\ Answered =>
                responses = << CASE req.method = "POST" -> Resp(500, "message")
                                 [] req.method = "OPTIONS" -> Resp(200, "none")
                                 [] OTHER -> Resp(405, "message") >>
           /\ req.method = "POST" => Answered

\* C6 witness: only the time-zone key is absent, a complete POST got 500.
C6_Witness ==
    /\ cfg.gemini = "set" /\ cfg.maps = "nokey"
    /\ req.method = "POST" /\ ~LacksField(req.body)
    /\ responses = <<Resp(500, "message")>>

\* C7: for every body and cusp longitude L in [0,360) the sign is the table
\* entry at floor(L/30) and the degree written (two decimals) is L mod 30,
\* within the rounding, and lies in [0,30); a multiple of 30 starts its sign
\* at degree 0.
C7_SignAndDegree ==
    \A e \in ChartEntries :
        (0 <= e.longitude /\ e.longitude < Deg(360))
            => /\ e.sign = SignNames[(e.longitude \div Deg(30)) + 1]
               /\ 5 * e.degree - (e.longitude % Deg(30)) \in -2..2
               /\ 0 <= e.degree /\ e.degree < 30 * 100
               /\ e.longitude = Deg(30) => (e.sign = "Tauro" /\ e.degree = 0)

\* C8 (the house of a body is the circular interval [cusp[h], cusp[h+1]) that
\* holds its longitude) is not decided here: line 216 takes the house
\* position from swisseph.swe_house_pos, handing it houseCusps, and line 217
\* only floors it; the handler has no interval search of its own.

\* C9: the hour handed to swe_julday is the local hours plus minutes/60 plus
\* offsetSeconds/3600 (here in seconds), with the local year, month and day.
C9_FractionalHour ==
    julArgs.set
        => /\ julArgs.hourSeconds =
                req.body.birthTime.h * 3600 + req.body.birthTime.mi * 60 + rawOffsetSeconds
           /\ julArgs.year = req.body.birthDate.y
           /\ julArgs.month = req.body.birthDate.m
           /\ julArgs.day = req.body.birthDate.d

\* C10: whatever raw longitudes the ephemeris returns, every sign in the
\* chart is one of the twelve table values and every degree-in-sign is in
\* [0,30), as after a normalisation to [0,360).
C10_Normalized ==
    /\ \A e \in ChartEntries :
          e.sign \in SignSet /\ 0 <= e.degree /\ e.degree < 30 * 100
    /\ angles # NoAngles =>
          {angles.ascendantSign, angles.mcSign, angles.sunSign, angles.moonSign}
              \subseteq SignSet

====
